---- MODULE Spec2Model ----
(***************************************************************************)
(* Model of amplifier_module_hooks_streaming_ui (StreamingUIHooks).        *)
(*                                                                         *)
(* One formatter instance holds the tracking map thinking_blocks and the   *)
(* single usage slot buffered_token_usage; the dispatcher calls one        *)
(* handler at a time with an event payload (a Python dict).  Python values *)
(* are tagged records, a Python str is the sequence of its characters, and *)
(* a dict is a function from key names to values.  stdout and stderr hold  *)
(* what the last call wrote to each stream, one element per print() or     *)
(* write() call, as the tests read them with capsys.readouterr() after     *)
(* every call.                                                             *)
(***************************************************************************)
EXTENDS Integers, Sequences, FiniteSets, TLC

VARIABLES
    show_thinking,          \* self.show_thinking
    show_tool_lines,        \* self.show_tool_lines
    show_token_usage,       \* self.show_token_usage
    thinking_blocks,        \* self.thinking_blocks: block index -> {started, agent}
    buffered_token_usage,   \* self.buffered_token_usage: None or {input, output}
    stdout,                 \* what the last call printed (sys.stdout)
    stderr,                 \* what the last call wrote to sys.stderr
    result,                 \* how the last call ended: a HookResult, a return value or an exception
    last,                   \* the last call: [handler, data]
    registered,             \* coordinator.hooks: the registrations made by mount, in order
    sessions                \* the sessions that send a scripted turn: for each its
                            \* position and what each of its events printed

vars == <<show_thinking, show_tool_lines, show_token_usage, thinking_blocks,
          buffered_token_usage, stdout, stderr, result, last, registered,
          sessions>>

-----------------------------------------------------------------------------
(* Python values *)

None == [t |-> "none"]
PyStr(cs) == [t |-> "str", s |-> cs]
PyInt(n) == [t |-> "int", n |-> n]
PyBool(b) == [t |-> "bool", b |-> b]
PyMap(m) == [t |-> "map", m |-> m]
PyList(l) == [t |-> "list", l |-> l]

EmptyMap == [k \in {} |-> None]

\* dict.get(k, d)
Get(m, k, d) == IF k \in DOMAIN m THEN m[k] ELSE d

\* bool(v): the truth value Python's `if v`, `not v` and `or` use
Truthy(v) ==
    CASE v.t = "none" -> FALSE
      [] v.t = "str"  -> v.s # <<>>
      [] v.t = "int"  -> v.n # 0
      [] v.t = "bool" -> v.b
      [] v.t = "map"  -> DOMAIN v.m # {}
      [] v.t = "list" -> v.l # <<>>

\* hash(v) succeeds: a dict or a list is unhashable (TypeError)
Hashable(v) == v.t \notin {"map", "list"}

\* isinstance(v, dict)
IsMap(v) == v.t = "map"

\* How a call ends: the handlers' HookResult(action=...), a helper's return
\* value, or the exception that left it
HookResult(action) == [t |-> "HookResult", action |-> action]
Returned(v) == [t |-> "return", value |-> v]
Raise(exc) == [t |-> "raise", exc |-> exc]
Raised(v) == v.t = "raise"
NoCall == [t |-> "nocall"]

\* String literals of the source, as character sequences
S_thinking == <<"t","h","i","n","k","i","n","g">>
S_reasoning == <<"r","e","a","s","o","n","i","n","g">>
S_text == <<"t","e","x","t">>
S_ok == <<"o","k">>
S_error == <<"e","r","r","o","r">>
S_unknown == <<"u","n","k","n","o","w","n">>
S_empty == <<"(","e","m","p","t","y",")">>
S_None == <<"N","o","n","e">>
S_True == <<"T","r","u","e">>
S_False == <<"F","a","l","s","e">>
S_dots == <<".",".","."," ","(">>
S_more_chars == <<" ","m","o","r","e"," ","c","h","a","r","s",")">>
S_more_lines == <<" ","m","o","r","e"," ","l","i","n","e","s",")">>
NL == "\n"

-----------------------------------------------------------------------------
(* Conversions to text *)

DigitChar(d) ==
    CASE d = 0 -> "0" [] d = 1 -> "1" [] d = 2 -> "2" [] d = 3 -> "3" [] d = 4 -> "4"
      [] d = 5 -> "5" [] d = 6 -> "6" [] d = 7 -> "7" [] d = 8 -> "8" [] d = 9 -> "9"

RECURSIVE NatToStr(_)
NatToStr(n) ==
    IF n < 10 THEN <<DigitChar(n)>>
    ELSE NatToStr(n \div 10) \o <<DigitChar(n % 10)>>

\* str(n) for an int
IntToStr(n) == IF n < 0 THEN <<"-">> \o NatToStr(-n) ELSE NatToStr(n)

\* The three digits of a group after a thousands separator
Group3(n) == <<DigitChar(n \div 100), DigitChar((n \div 10) % 10), DigitChar(n % 10)>>

RECURSIVE NatWithCommas(_)
NatWithCommas(n) ==
    IF n < 1000 THEN NatToStr(n)
    ELSE NatWithCommas(n \div 1000) \o <<",">> \o Group3(n % 1000)

\* f"{n:,}" for an int
FormatComma(n) == IF n < 0 THEN <<"-">> \o NatWithCommas(-n) ELSE NatWithCommas(n)

\* str(v), for the values the events carry where the code calls str(): a str
\* is itself; the repr of a non-empty dict or list is not modelled
StrOf(v) ==
    CASE v.t = "str" -> v.s
      [] v.t = "none" -> S_None
      [] v.t = "int" -> IntToStr(v.n)
      [] v.t = "bool" -> IF v.b THEN S_True ELSE S_False
      [] v.t = "map" /\ DOMAIN v.m = {} -> <<"{", "}">>
      [] v.t = "list" /\ v.l = <<>> -> <<"[", "]">>

\* text.split(sep): the pieces between the separators
RECURSIVE Split(_, _)
Split(cs, sep) ==
    IF \A i \in 1..Len(cs) : cs[i] # sep THEN <<cs>>
    ELSE LET i == CHOOSE k \in 1..Len(cs) :
                      cs[k] = sep /\ \A j \in 1..(k-1) : cs[j] # sep
         IN  <<SubSeq(cs, 1, i - 1)>> \o Split(SubSeq(cs, i + 1, Len(cs)), sep)

\* sep.join(parts)
RECURSIVE Join(_, _)
Join(parts, sep) ==
    IF parts = <<>> THEN <<>>
    ELSE IF Len(parts) = 1 THEN parts[1]
    ELSE parts[1] \o <<sep>> \o Join(Tail(parts), sep)

\* seq[:k], Python's slice: a negative k counts from the end
SliceTo(seq, k) ==
    IF k >= 0 THEN SubSeq(seq, 1, IF k < Len(seq) THEN k ELSE Len(seq))
    ELSE SubSeq(seq, 1, IF Len(seq) + k > 0 THEN Len(seq) + k ELSE 0)

-----------------------------------------------------------------------------
(* _parse_agent_from_session_id *)

\* "_" in session_id, for a str
HasUnderscore(cs) == \E i \in 1..Len(cs) : cs[i] = "_"

\* Mutant of SplitFirst: session_id.rsplit("_", 1), split on the last underscore
SplitLast(cs) ==
    LET i == CHOOSE k \in 1..Len(cs) :
                 cs[k] = "_" /\ \A j \in (k+1)..Len(cs) : cs[j] # "_"
    IN  <<SubSeq(cs, 1, i - 1), SubSeq(cs, i + 1, Len(cs))>>

\* session_id.split("_", 1): split on the first underscore only
SplitFirst(cs) ==
    LET i == CHOOSE k \in 1..Len(cs) :
                 cs[k] = "_" /\ \A j \in 1..(k-1) : cs[j] # "_"
    IN  <<SubSeq(cs, 1, i - 1), SubSeq(cs, i + 1, Len(cs))>>

\* StreamingUIHooks._parse_agent_from_session_id: None, the agent name, or
\* the TypeError of `"_" in session_id` for a truthy number
_parse_agent_from_session_id(session_id) ==
    IF ~Truthy(session_id) THEN None
    ELSE IF session_id.t \in {"int", "bool"} THEN Raise("TypeError")
    ELSE IF session_id.t = "str" /\ HasUnderscore(session_id.s)
         THEN LET parts == SplitFirst(session_id.s)
              IN  IF Len(parts) = 2 THEN PyStr(parts[2]) ELSE None
    ELSE None

-----------------------------------------------------------------------------
(* _truncate_lines *)

\* Longest single line shown in full (line 385)
CharLimit == 200

\* StreamingUIHooks._truncate_lines, for a str text
_truncate_lines(text, max_lines) ==
    IF text = <<>> THEN S_empty
    ELSE LET lines == Split(text, NL)
         IN  IF Len(lines) = 1 /\ Len(text) > CharLimit
             THEN SubSeq(text, 1, CharLimit) \o S_dots
                      \o IntToStr(Len(text) - CharLimit) \o S_more_chars
             ELSE IF Len(lines) <= max_lines THEN text
             ELSE Join(SliceTo(lines, max_lines)
                           \o <<S_dots \o IntToStr(Len(lines) - max_lines) \o S_more_lines>>,
                       NL)

-----------------------------------------------------------------------------
(* _flatten_reasoning_block *)

\* _collect(value): the fragments value contributes, in order
RECURSIVE Collect(_)
Collect(value) ==
    CASE value.t = "none" -> <<>>
      [] value.t = "str" -> IF value.s # <<>> THEN <<value.s>> ELSE <<>>
      [] value.t = "map" ->
            Collect(Get(value.m, "text", None)) \o Collect(Get(value.m, "thinking", None))
            \o Collect(Get(value.m, "summary", None)) \o Collect(Get(value.m, "content", None))
      [] value.t = "list" ->
            IF value.l = <<>> THEN <<>>
            ELSE Collect(Head(value.l)) \o Collect(PyList(Tail(value.l)))
      [] OTHER -> <<>>   \* an int or bool has no `text` attribute

\* Mutant of _flatten_reasoning_block: the block itself is visited like a
\* nested mapping, text before thinking
_flatten_text_first(block) == Join(Collect(PyMap(block)), NL)

\* _flatten_reasoning_block(block): the fragments joined by newlines
_flatten_reasoning_block(block) ==
    Join(Collect(Get(block, "thinking", None)) \o Collect(Get(block, "text", None))
         \o Collect(Get(block, "summary", None)) \o Collect(Get(block, "content", None)),
         NL)

-----------------------------------------------------------------------------
(* Output: one record per print() or sys.stderr.write() call *)

\* sys.stderr.write of the "Thinking..." status line (lines 137-144)
ThinkingStatus(agent_name) ==
    IF Truthy(agent_name)
    THEN <<[kind |-> "thinking_status", indent |-> 4, icon |-> "sub_agent", agent |-> agent_name]>>
    ELSE <<[kind |-> "thinking_status", indent |-> 0, icon |-> "parent", agent |-> None]>>

\* The rendered thinking block (lines 168-198): banner, header, rule, the
\* markdown rendered by rich (not modelled further), banner
ThinkingBlock(agent_name, thinking_text) ==
    IF Truthy(agent_name)
    THEN <<[kind |-> "banner", indent |-> 4, width |-> 56],
           [kind |-> "thinking_header", indent |-> 4, agent |-> agent_name],
           [kind |-> "rule", indent |-> 4, width |-> 56],
           [kind |-> "markdown", indent |-> 4, width |-> 52, text |-> thinking_text],
           [kind |-> "banner", indent |-> 4, width |-> 56]>>
    ELSE <<[kind |-> "banner", indent |-> 0, width |-> 60],
           [kind |-> "thinking_header", indent |-> 0, agent |-> None],
           [kind |-> "rule", indent |-> 0, width |-> 60],
           [kind |-> "markdown", indent |-> 0, width |-> 60, text |-> thinking_text],
           [kind |-> "banner", indent |-> 0, width |-> 60]>>

\* The tool call block (lines 228-235)
ToolCall(agent_name, tool_name, truncated) ==
    IF Truthy(agent_name)
    THEN <<[kind |-> "tool_call", indent |-> 4, agent |-> agent_name, tool |-> tool_name],
           [kind |-> "tool_arguments", indent |-> 4, text |-> truncated]>>
    ELSE <<[kind |-> "tool_call", indent |-> 0, agent |-> None, tool |-> tool_name],
           [kind |-> "tool_arguments", indent |-> 3, text |-> truncated]>>

\* The tool result block (lines 279-288)
ToolResult(agent_name, tool_name, success, truncated) ==
    LET icon == IF Truthy(success) THEN "check" ELSE "cross"
    IN  IF Truthy(agent_name)
        THEN <<[kind |-> "tool_result", indent |-> 4, icon |-> icon, agent |-> agent_name,
                tool |-> tool_name],
               [kind |-> "tool_output", indent |-> 7, text |-> truncated]>>
        ELSE <<[kind |-> "tool_result", indent |-> 0, icon |-> icon, agent |-> None,
                tool |-> tool_name],
               [kind |-> "tool_output", indent |-> 3, text |-> truncated]>>

\* The usage summary (lines 353-355): blank line, header, counters
UsageSummary(input_str, output_str, total_str) ==
    <<[kind |-> "blank"],
      [kind |-> "usage_header"],
      [kind |-> "usage_summary", input |-> input_str, output |-> output_str,
       total |-> total_str]>>

-----------------------------------------------------------------------------
(* Handlers.  A handler's effect is the record [tb, buf, out, err, res]:   *)
(* the tracking map and the usage slot after the call, what it wrote to    *)
(* stdout and stderr, and how it ended.                                    *)

Continue == HookResult("continue")

Effect(tb, buf, out, err, res) ==
    [tb |-> tb, buf |-> buf, out |-> out, err |-> err, res |-> res]

\* A call that changes nothing and writes nothing, ending with res
NoEffect(res) == Effect(thinking_blocks, buffered_token_usage, <<>>, <<>>, res)

\* block_type in {"thinking", "reasoning"}
IsThinkingType(block_type) == block_type \in {PyStr(S_thinking), PyStr(S_reasoning)}

\* block_index in self.thinking_blocks, for a hashable block_index
Tracked(block_index) == block_index.t = "int" /\ block_index.n \in DOMAIN thinking_blocks

\* del self.thinking_blocks[block_index]
Del(tb, k) == [i \in DOMAIN tb \ {k} |-> tb[i]]

\* Mutant of ShouldTrack: the show_thinking flag is not consulted
ShouldTrack_ignoring_flag(block_type, block_index) ==
    IsThinkingType(block_type) /\ block_index # None

\* The test of line 135 once block_type is known to be hashable
ShouldTrack(block_type, block_index) ==
    IsThinkingType(block_type) /\ show_thinking /\ block_index # None

\* Mutant of Track: an index that is already tracked keeps its entry
Track_keeps_first(tb, k, agent_name) ==
    IF k \in DOMAIN tb THEN tb ELSE (k :> [started |-> TRUE, agent |-> agent_name]) @@ tb

\* self.thinking_blocks[block_index] = {"started": True, "agent": agent_name}
\* (line 136): the entry of the index is set, whatever it was
Track(tb, k, agent_name) == (k :> [started |-> TRUE, agent |-> agent_name]) @@ tb

\* Mutant of StartOutput: the status line is printed to stdout
StartOutput_stdout(agent_name) == [out |-> ThinkingStatus(agent_name), err |-> <<>>]

\* What the block-start handler writes when it tracks a block (lines 137-144):
\* the status line goes to sys.stderr, nothing to stdout
StartOutput(agent_name) == [out |-> <<>>, err |-> ThinkingStatus(agent_name)]

\* StreamingUIHooks.handle_content_block_start
content_block_start(data) ==
    LET block_type == Get(data, "block_type", None)
        block_index == Get(data, "block_index", None)
        session_id == Get(data, "session_id", None)
        agent_name == _parse_agent_from_session_id(session_id)
    IN  IF Raised(agent_name) THEN NoEffect(agent_name)
        ELSE IF ~Hashable(block_type) THEN NoEffect(Raise("TypeError"))
        ELSE IF ShouldTrack(block_type, block_index)
        THEN IF ~Hashable(block_index) THEN NoEffect(Raise("TypeError"))
             ELSE Effect(Track(thinking_blocks, block_index.n, agent_name),
                         buffered_token_usage,
                         StartOutput(agent_name).out,
                         StartOutput(agent_name).err,
                         Continue)
        ELSE NoEffect(Continue)

\* block.get("thinking", "") or block.get("text", "") or _flatten_reasoning_block(block)
ThinkingText(block) ==
    LET thinking == Get(block, "thinking", PyStr(<<>>))
        text == Get(block, "text", PyStr(<<>>))
    IN  IF Truthy(thinking) THEN thinking
        ELSE IF Truthy(text) THEN text
        ELSE PyStr(_flatten_reasoning_block(block))

\* Mutant of EndUntracked: the block is rendered although it was never tracked
EndUntracked_renders(block) ==
    Effect(thinking_blocks, buffered_token_usage,
           ThinkingBlock(None, StrOf(Get(block, "thinking", PyStr(<<>>)))), <<>>,
           HookResult("continue"))

\* The block-end handler when block_index is not in self.thinking_blocks: the
\* test of line 163 fails and the handler returns (line 203)
EndUntracked(block) == NoEffect(Continue)

\* StreamingUIHooks.handle_content_block_end
content_block_end(data) ==
    LET block_index == Get(data, "block_index", None)
        block == Get(data, "block", PyMap(EmptyMap))
    IN  IF ~IsMap(block) THEN NoEffect(Raise("AttributeError"))
        ELSE LET block_type == Get(block.m, "type", None)
             IN  IF ~Hashable(block_type) THEN NoEffect(Raise("TypeError"))
                 ELSE IF ~(IsThinkingType(block_type) /\ block_index # None)
                 THEN NoEffect(Continue)
                 ELSE IF ~Hashable(block_index) THEN NoEffect(Raise("TypeError"))
                 ELSE IF ~Tracked(block_index) THEN EndUntracked(block.m)
                 ELSE LET thinking_text == ThinkingText(block.m)
                          agent_name == thinking_blocks[block_index.n].agent
                      IN  Effect(Del(thinking_blocks, block_index.n),
                                 buffered_token_usage,
                                 IF Truthy(thinking_text)
                                 THEN ThinkingBlock(agent_name, thinking_text.s)
                                 ELSE <<>>,
                                 <<>>,
                                 Continue)

\* StreamingUIHooks.handle_tool_pre
tool_pre(data) ==
    LET tool_name == Get(data, "tool_name", PyStr(S_unknown))
        tool_input == Get(data, "tool_input", PyMap(EmptyMap))
        session_id == Get(data, "session_id", None)
        agent_name == _parse_agent_from_session_id(session_id)
    IN  IF Raised(agent_name) THEN NoEffect(agent_name)
        ELSE LET input_str == IF tool_input # None THEN StrOf(tool_input) ELSE <<>>
                 truncated == _truncate_lines(input_str, show_tool_lines)
             IN  Effect(thinking_blocks, buffered_token_usage,
                        ToolCall(agent_name, StrOf(tool_name), truncated),
                        <<>>,
                        Continue)

\* The output text and success flag of a tool result (lines 259-273)
ToolOutput(res) ==
    IF IsMap(res)
    THEN LET output == Get(res.m, "output", None)
         IN  [output |-> IF output = None THEN StrOf(res) ELSE StrOf(output),
              success |-> Get(res.m, "success", PyBool(TRUE))]
    ELSE [output |-> IF res # None THEN StrOf(res) ELSE <<>>,
          success |-> PyBool(TRUE)]

\* StreamingUIHooks.handle_tool_post
tool_post(data) ==
    LET tool_name == Get(data, "tool_name", PyStr(S_unknown))
        res == Get(data, "tool_response", Get(data, "result", PyMap(EmptyMap)))
        session_id == Get(data, "session_id", None)
        agent_name == _parse_agent_from_session_id(session_id)
    IN  IF Raised(agent_name) THEN NoEffect(agent_name)
        ELSE LET o == ToolOutput(res)
                 truncated == _truncate_lines(o.output, show_tool_lines)
             IN  Effect(thinking_blocks, buffered_token_usage,
                        ToolResult(agent_name, StrOf(tool_name), o.success, truncated),
                        <<>>,
                        Continue)

\* Mutant of Status: the status is never looked at, every response counts as "ok"
Status_ignored(data) == PyStr(S_ok)

\* Mutant of Status: data.get("status"), a missing status is None
Status_no_default(data) == Get(data, "status", None)

\* data.get("status", "ok")
Status(data) == Get(data, "status", PyStr(S_ok))

\* Mutant of CaptureOutput: the summary is printed when the usage is captured
CaptureOutput_summary(usage) ==
    UsageSummary(StrOf(Get(usage, "input", PyInt(0))), StrOf(Get(usage, "output", PyInt(0))),
                 S_empty)

\* What handle_llm_response prints when it buffers a usage: nothing, the
\* display is left to handle_prompt_complete (lines 318-323)
CaptureOutput(usage) == <<>>

\* StreamingUIHooks.handle_llm_response
llm_response(data) ==
    IF ~show_token_usage THEN NoEffect(Continue)
    ELSE IF Status(data) # PyStr(S_ok) THEN NoEffect(Continue)
    ELSE LET usage == Get(data, "usage", PyMap(EmptyMap))
         IN  IF ~Truthy(usage) THEN NoEffect(Continue)
             ELSE IF ~IsMap(usage) THEN NoEffect(Raise("AttributeError"))
             ELSE Effect(thinking_blocks,
                         PyMap("input" :> Get(usage.m, "input", PyInt(0))
                               @@ "output" :> Get(usage.m, "output", PyInt(0))),
                         CaptureOutput(usage.m), <<>>, Continue)

\* input_tokens + output_tokens: ints add, strs concatenate, None has no +
Plus(a, b) ==
    IF a.t = "int" /\ b.t = "int" THEN PyInt(a.n + b.n)
    ELSE IF a.t = "str" /\ b.t = "str" THEN PyStr(a.s \o b.s)
    ELSE Raise("TypeError")

\* f"{v:,}": an int is grouped by thousands, a str refuses the "," format
Commas(v) ==
    IF v.t = "int" THEN PyStr(FormatComma(v.n))
    ELSE IF v.t = "str" THEN Raise("ValueError")
    ELSE Raise("TypeError")

\* StreamingUIHooks.handle_prompt_complete
prompt_complete(data) ==
    IF ~Truthy(buffered_token_usage) THEN NoEffect(Continue)
    ELSE LET input_tokens == buffered_token_usage.m["input"]
             output_tokens == buffered_token_usage.m["output"]
             total_tokens == Plus(input_tokens, output_tokens)
         IN  IF Raised(total_tokens) THEN NoEffect(total_tokens)
             ELSE LET input_str == Commas(input_tokens)
                      output_str == Commas(output_tokens)
                      total_str == Commas(total_tokens)
                  IN  IF Raised(input_str) THEN NoEffect(input_str)
                      ELSE IF Raised(output_str) THEN NoEffect(output_str)
                      ELSE IF Raised(total_str) THEN NoEffect(total_str)
                      ELSE Effect(thinking_blocks, None,
                                  UsageSummary(input_str.s, output_str.s, total_str.s),
                                  <<>>, Continue)

-----------------------------------------------------------------------------
(* Inputs: the payloads the dispatcher may hand to each handler *)

\* Longest session identifier handed directly to _parse_agent_from_session_id
MaxSidLen == 2

\* Characters of session identifiers
SidChars == {"a", "_"}

\* All session identifiers of at most n characters
SessionIds(n) == UNION {[1..k -> SidChars] : k \in 0..n}

\* Session identifiers of the events: a parent session, a sub-session with an
\* empty agent name, a sub-session of agent "a"
EventSessionIds == {PyStr(<<"a">>), PyStr(<<"_">>), PyStr(<<"a", "_", "a">>)}

\* Two sessions whose events interleave: the parent "a" and its sub-session "a_a"
SessionPair == {PyStr(<<"a">>), PyStr(<<"a", "_", "a">>)}

\* Block indexes of the events
BlockIndexes == {0, 1}

\* Token counters of the events
InputCounts == {1234}
OutputCounts == {567}

\* show_tool_lines values the formatter is constructed with (default 5, line 48)
ToolLineChoices == {1, 5}

\* Longest short text given directly to _truncate_lines
MaxTextLen == 3

\* Characters of the texts given to _truncate_lines
TextChars == {"x", NL}

\* n copies of the character c
Rep(c, n) == [i \in 1..n |-> c]

\* Texts given to _truncate_lines: every text of at most MaxTextLen characters,
\* single lines at and just above the 200-character limit, and a text of two
\* lines whose first line is above the limit
TruncateTexts ==
    UNION {[1..k -> TextChars] : k \in 0..MaxTextLen}
    \cup {Rep("x", CharLimit), Rep("x", CharLimit + 1), Rep("x", CharLimit + 2),
          Rep("x", CharLimit + 1) \o <<NL, "x">>}

\* max_lines values given to _truncate_lines: show_tool_lines is whatever
\* integer the configuration holds (line 48), a negative one included
MaxLinesChoices == {-1, 0, 1, 2}

\* Most fields of a mapping, and most elements of a list, in the payloads
\* given directly to _flatten_reasoning_block
MaxFields == 2
MaxListLen == 2

\* The fields _flatten_reasoning_block looks at
Fields == {"text", "thinking", "summary", "content"}

\* All mappings with 1..n of the fields, bound to values of vs
MapsOver(vs, n) ==
    UNION {[d -> vs] : d \in {f \in SUBSET Fields : Cardinality(f) \in 1..n}}

\* Scalars: strings, the empty string, None, a number (no `text` attribute)
Leaves == {PyStr(<<"a">>), PyStr(<<"b">>), PyStr(<<>>), None, PyInt(7)}

\* Mappings of one field bound to a non-empty string
OneFieldMaps == {PyMap(m) : m \in MapsOver({PyStr(<<"a">>), PyStr(<<"b">>)}, 1)}

\* Lists of scalars and one-field mappings
LeafLists ==
    {PyList(l) : l \in UNION {[1..k -> Leaves \cup OneFieldMaps] : k \in 0..MaxListLen}}

\* Values of a field of the block: scalars, mappings of scalars, lists
FieldValues ==
    Leaves \cup {PyMap(m) : m \in MapsOver(Leaves, MaxFields)} \cup LeafLists

\* Blocks given to _flatten_reasoning_block: one field with any value, or up
\* to MaxFields fields with scalars, one-field mappings or one-element lists
FlattenBlocks ==
    {EmptyMap} \cup MapsOver(FieldValues, 1)
    \cup MapsOver(Leaves \cup OneFieldMaps \cup {PyList(<<v>>) : v \in Leaves}, MaxFields)

\* The dicts of ms, and each extended with key k bound to a value of vs
With(ms, k, vs) == ms \cup {(k :> v) @@ m : v \in vs, m \in ms}

\* The dicts of ms extended with key k bound to a value of vs
Having(ms, k, vs) == {(k :> v) @@ m : v \in vs, m \in ms}

Txt(cs) == PyStr(cs)

StartPayloads ==
    \* well-formed: any of the fields may be missing
    With(With(With({EmptyMap},
        "block_type", {Txt(S_thinking), Txt(S_reasoning), Txt(S_text)}),
        "block_index", {PyInt(i) : i \in BlockIndexes}),
        "session_id", EventSessionIds)
    \* malformed: an unhashable block_index, an unhashable block_type, a numeric session_id
    \cup {"block_type" :> Txt(S_thinking) @@ "block_index" :> PyList(<<>>),
          "block_type" :> PyList(<<>>) @@ "block_index" :> PyInt(0),
          "block_type" :> Txt(S_thinking) @@ "block_index" :> PyInt(0) @@ "session_id" :> PyInt(7)}
    \* the fields wrapped under a top-level "data" key (test_thinking_block_start)
    \cup {"data" :> PyMap("block_type" :> Txt(S_thinking) @@ "block_index" :> PyInt(i)) :
            i \in BlockIndexes}

\* Completed blocks of the block-end events
Blocks ==
    { EmptyMap,
      "type" :> Txt(S_thinking) @@ "thinking" :> Txt(<<"x">>),
      "type" :> Txt(S_thinking),
      "type" :> Txt(S_thinking) @@ "thinking" :> Txt(<<>>) @@ "text" :> Txt(<<"y">>),
      "type" :> Txt(S_reasoning)
          @@ "summary" :> PyList(<<PyMap("text" :> Txt(<<"a">>)), PyMap("content" :> Txt(<<"b">>))>>),
      "type" :> Txt(S_text) @@ "text" :> Txt(<<"x">>),
      "thinking" :> Txt(<<"x">>) }

EndPayloads ==
    With(With({EmptyMap},
        "block_index", {PyInt(i) : i \in BlockIndexes}),
        "block", {PyMap(b) : b \in Blocks})
    \* malformed: a block that is no mapping, an unhashable type or block_index
    \cup {"block_index" :> PyInt(0) @@ "block" :> None,
          "block_index" :> PyInt(0) @@ "block" :> Txt(S_thinking),
          "block_index" :> PyInt(0) @@ "block" :> PyMap("type" :> PyList(<<>>)),
          "block_index" :> PyList(<<>>) @@ "block" :> PyMap("type" :> Txt(S_thinking))}
    \* the fields wrapped under a top-level "data" key (test_thinking_block_end)
    \cup {"data" :> PyMap("block_index" :> PyInt(0)
                          @@ "block" :> PyMap("type" :> Txt(S_thinking) @@ "thinking" :> Txt(<<"x">>)))}
    \* the event of a session: the dispatcher adds session_id to every payload
    \cup {"block_index" :> PyInt(i) @@ "session_id" :> sid
          @@ "block" :> PyMap("type" :> Txt(S_thinking) @@ "thinking" :> Txt(<<"x">>)) :
            i \in BlockIndexes, sid \in SessionPair}

ToolPrePayloads ==
    With(With(Having({EmptyMap},
        "tool_name", {Txt(<<"t">>)}),
        "tool_input", {None, Txt(<<"x", NL, "y">>), PyInt(5)}),
        "session_id", EventSessionIds)
    \cup {EmptyMap, "session_id" :> PyInt(7)}

ToolPostPayloads ==
    With(With(Having({EmptyMap},
        "tool_name", {Txt(<<"t">>)}),
        "tool_response", {None, Txt(<<"x", NL, "y">>),
                          PyMap("output" :> Txt(<<"x">>) @@ "success" :> PyBool(TRUE)),
                          PyMap("output" :> PyInt(5) @@ "success" :> PyBool(FALSE))}),
        "session_id", EventSessionIds)
    \cup {EmptyMap,
          "result" :> PyMap("output" :> Txt(<<"x">>)),
          "session_id" :> PyInt(7)}

\* Usage mappings: each counter present or missing
Usages == With(With({EmptyMap}, "input", {PyInt(n) : n \in InputCounts}),
               "output", {PyInt(n) : n \in OutputCounts})

LlmPayloads ==
    With(With({EmptyMap},
        "status", {Txt(S_ok), Txt(S_error)}),
        "usage", {PyMap(u) : u \in Usages} \cup {None})
    \* malformed: a usage that is no mapping, counters that are no integers
    \cup {"status" :> Txt(S_ok) @@ "usage" :> PyList(<<PyInt(1)>>),
          "status" :> Txt(S_ok) @@ "usage" :> PyMap("input" :> None @@ "output" :> PyInt(567)),
          "status" :> Txt(S_ok) @@ "usage" :> PyMap("input" :> Txt(<<"1">>) @@ "output" :> Txt(<<"2">>))}
    \* the usage wrapped under a top-level "data" key (test_token_usage_display)
    \cup {"status" :> Txt(S_ok)
          @@ "data" :> PyMap("usage" :> PyMap("input" :> PyInt(1234) @@ "output" :> PyInt(567)))}
    \* the response of a sub-agent session
    \cup {"status" :> Txt(S_ok) @@ "session_id" :> PyStr(<<"a", "_", "a">>)
          @@ "usage" :> PyMap("input" :> PyInt(1234) @@ "output" :> PyInt(567))}

PromptPayloads == With({EmptyMap}, "session_id", SessionPair)

-----------------------------------------------------------------------------
(* Actions: one per handler, and the direct call of the pure helper *)

Call(handler, data, e) ==
    /\ thinking_blocks' = e.tb
    /\ buffered_token_usage' = e.buf
    /\ stdout' = e.out
    /\ stderr' = e.err
    /\ result' = e.res
    /\ last' = [handler |-> handler, data |-> data]
    /\ UNCHANGED <<show_thinking, show_tool_lines, show_token_usage, registered>>

\* A call the dispatcher makes for an event of any origin
Apply(handler, data, e) == Call(handler, data, e) /\ UNCHANGED sessions

handle_content_block_start ==
    \E data \in StartPayloads : Apply("content_block:start", data, content_block_start(data))

handle_content_block_end ==
    \E data \in EndPayloads : Apply("content_block:end", data, content_block_end(data))

handle_tool_pre ==
    \E data \in ToolPrePayloads : Apply("tool:pre", data, tool_pre(data))

handle_tool_post ==
    \E data \in ToolPostPayloads : Apply("tool:post", data, tool_post(data))

handle_llm_response ==
    \E data \in LlmPayloads : Apply("llm:response", data, llm_response(data))

handle_prompt_complete ==
    \E data \in PromptPayloads : Apply("prompt:complete", data, prompt_complete(data))

\* A direct call of _parse_agent_from_session_id, as a unit test makes it
parse_agent_from_session_id ==
    \E session_id \in {PyStr(cs) : cs \in SessionIds(MaxSidLen)} \cup {None} :
        Apply("_parse_agent_from_session_id", "session_id" :> session_id,
              NoEffect(Returned(_parse_agent_from_session_id(session_id))))

\* The sessions of a turn: the parent and a sub-agent session spawned by it
SessionNames == {"parent", "sub"}
SessionId(s) == IF s = "parent" THEN PyStr(<<"a">>) ELSE PyStr(<<"a", "_", "a">>)

\* The usage each session's response reports
SessionUsage(s) ==
    IF s = "parent" THEN "input" :> PyInt(1234) ELSE "output" :> PyInt(567)

\* No session has sent an event
NoEvents == [s \in SessionNames |-> [pc |-> "block_start", printed |-> <<>>]]

\* Session s sends its next event, at position pc: the handler is called and
\* what it printed to stdout is noted for the session
Send(s, pc, next, handler, data, e) ==
    /\ sessions[s].pc = pc
    /\ Call(handler, data, e)
    /\ sessions' = [sessions EXCEPT ![s] = [pc |-> next, printed |-> Append(@.printed, e.out)]]

\* A turn of a session: a thinking block with index 0 starts and ends, the
\* response reports its usage, the prompt completes
session_block_start ==
    \E s \in SessionNames :
        LET data == "block_type" :> PyStr(S_thinking) @@ "block_index" :> PyInt(0)
                    @@ "session_id" :> SessionId(s)
        IN  Send(s, "block_start", "block_end", "content_block:start", data,
                 content_block_start(data))

session_block_end ==
    \E s \in SessionNames :
        LET data == "block_index" :> PyInt(0) @@ "session_id" :> SessionId(s)
                    @@ "block" :> PyMap("type" :> PyStr(S_thinking) @@ "thinking" :> PyStr(<<"x">>))
        IN  Send(s, "block_end", "response", "content_block:end", data,
                 content_block_end(data))

session_response ==
    \E s \in SessionNames :
        LET data == "status" :> PyStr(S_ok) @@ "session_id" :> SessionId(s)
                    @@ "usage" :> PyMap(SessionUsage(s))
        IN  Send(s, "response", "prompt_complete", "llm:response", data, llm_response(data))

session_prompt_complete ==
    \E s \in SessionNames :
        LET data == "session_id" :> SessionId(s)
        IN  Send(s, "prompt_complete", "done", "prompt:complete", data, prompt_complete(data))

\* No method of the formatter has been called since its construction
FreshFormatter == result = NoCall

\* A direct call of _truncate_lines on a fresh formatter, as
\* test_truncate_lines makes it
truncate_lines ==
    /\ FreshFormatter
    /\ \E text \in TruncateTexts, max_lines \in MaxLinesChoices :
          Apply("_truncate_lines", "text" :> PyStr(text) @@ "max_lines" :> PyInt(max_lines),
                NoEffect(Returned(PyStr(_truncate_lines(text, max_lines)))))

\* A direct call of the module-level function _flatten_reasoning_block
flatten_reasoning_block ==
    /\ FreshFormatter
    /\ \E block \in FlattenBlocks :
          Apply("_flatten_reasoning_block", "block" :> PyMap(block),
                NoEffect(Returned(PyStr(_flatten_reasoning_block(block)))))

\* coordinator.hooks.register(event, hooks.<method>), lines 55-60: the six
\* registrations of the one formatter instance mount creates
Registrations ==
    <<[event |-> "content_block:start", method |-> "handle_content_block_start", hooks |-> 1],
      [event |-> "content_block:end", method |-> "handle_content_block_end", hooks |-> 1],
      [event |-> "tool:pre", method |-> "handle_tool_pre", hooks |-> 1],
      [event |-> "tool:post", method |-> "handle_tool_post", hooks |-> 1],
      [event |-> "llm:response", method |-> "handle_llm_response", hooks |-> 1],
      [event |-> "prompt:complete", method |-> "handle_prompt_complete", hooks |-> 1]>>

\* A bool or int option as the formatter stores it
Plain(v) == IF v.t = "bool" THEN v.b ELSE v.n

\* The `ui` sections of a configuration: each recognized option absent or
\* set, with or without an option the module does not know
UiSections ==
    With(With(With(With({EmptyMap},
        "show_thinking_stream", {PyBool(b) : b \in BOOLEAN}),
        "show_tool_lines", {PyInt(n) : n \in ToolLineChoices}),
        "show_token_usage", {PyBool(b) : b \in BOOLEAN}),
        "theme", {PyStr(<<"x">>)})

\* Configurations given to mount: empty, with a `ui` section, with a `ui`
\* key that holds no section (None), each with or without another section
MountConfigs ==
    With(With({EmptyMap}, "ui", {PyMap(u) : u \in UiSections} \cup {None}),
         "logging", {PyMap(EmptyMap)})

\* mount(coordinator, config): read the options of the `ui` section, create
\* the formatter, register its six handlers.  ui_config.get raises
\* AttributeError when the `ui` key holds no mapping; nothing is created or
\* registered then.
mount ==
    /\ last.handler = "import"
    /\ \E config \in MountConfigs :
          LET ui_config == Get(config, "ui", PyMap(EmptyMap))
          IN  /\ last' = [handler |-> "mount", data |-> config]
              /\ IF IsMap(ui_config)
                 THEN /\ show_thinking' = Plain(Get(ui_config.m, "show_thinking_stream", PyBool(TRUE)))
                      /\ show_tool_lines' = Plain(Get(ui_config.m, "show_tool_lines", PyInt(5)))
                      /\ show_token_usage' = Plain(Get(ui_config.m, "show_token_usage", PyBool(TRUE)))
                      /\ registered' = Registrations
                      /\ result' = Returned(None)
                 ELSE /\ UNCHANGED <<show_thinking, show_tool_lines, show_token_usage, registered>>
                      /\ result' = Raise("AttributeError")
              /\ UNCHANGED <<thinking_blocks, buffered_token_usage, stdout, stderr, sessions>>

\* The module is imported, mount has not been called: no formatter exists
\* (its fields hold None) and nothing is registered
Unmounted ==
    /\ show_thinking = None
    /\ show_tool_lines = None
    /\ show_token_usage = None
    /\ thinking_blocks = EmptyMap
    /\ buffered_token_usage = None
    /\ stdout = <<>>
    /\ stderr = <<>>
    /\ result = NoCall
    /\ last = [handler |-> "import", data |-> EmptyMap]
    /\ registered = <<>>
    /\ sessions = NoEvents

MountSpec == Unmounted /\ [][mount]_vars

\* StreamingUIHooks.__init__, in a formatter mount has created and registered
Init ==
    /\ show_thinking \in BOOLEAN
    /\ show_tool_lines \in ToolLineChoices
    /\ show_token_usage \in BOOLEAN
    /\ thinking_blocks = EmptyMap
    /\ buffered_token_usage = None
    /\ stdout = <<>>
    /\ stderr = <<>>
    /\ result = NoCall
    /\ last = [handler |-> "__init__", data |-> EmptyMap]
    /\ registered = Registrations
    /\ sessions = NoEvents

Next ==
    \/ handle_content_block_start
    \/ handle_content_block_end
    \/ handle_tool_pre
    \/ handle_tool_post
    \/ handle_llm_response
    \/ handle_prompt_complete
    \/ parse_agent_from_session_id

Spec == Init /\ [][Next]_vars

\* Two sessions send their turns through the one formatter, each in its own
\* order, the two interleaved in any way
SessionsNext ==
    \/ session_block_start
    \/ session_block_end
    \/ session_response
    \/ session_prompt_complete

SessionsSpec == Init /\ [][SessionsNext]_vars

\* The pure helpers called directly: the formatter is constructed and one
\* helper is applied to one input
HelperNext ==
    \/ truncate_lines
    \/ flatten_reasoning_block

HelperSpec == Init /\ [][HelperNext]_vars

-----------------------------------------------------------------------------
(* Properties *)

\* The six event handlers mount registers (lines 55-60)
HandlerNames == {"content_block:start", "content_block:end", "tool:pre", "tool:post",
                 "llm:response", "prompt:complete"}

\* The lines of kind k in an output stream
LinesOf(out, k) == {i \in 1..Len(out) : out[i].kind = k}

\* s is the decimal form of n with a comma before every group of three digits
IsCommaForm(s, n) ==
    /\ SelectSeq(s, LAMBDA c : c # ",") = IntToStr(n)
    /\ \A k \in 1..Len(s) : (s[k] = ",") <=> ((Len(s) - k + 1) % 4 = 0)

\* out holds exactly one usage summary, and it shows the counters of the
\* buffered record buf and their sum
ShowsUsage(out, buf) ==
    /\ Cardinality(LinesOf(out, "usage_summary")) = 1
    /\ LET line == out[CHOOSE i \in LinesOf(out, "usage_summary") : TRUE]
           i == buf.m["input"]
           o == buf.m["output"]
       IN  (i.t = "int" /\ o.t = "int") =>
              /\ IsCommaForm(line.input, i.n)
              /\ IsCommaForm(line.output, o.n)
              /\ IsCommaForm(line.total, i.n + o.n)

\* C1: every handler returns the "continue" result for every payload it can
\* be given, malformed payloads included; no handler raises.
C1_EveryHandlerContinues ==
    last.handler \in HandlerNames => result = Continue

\* C2: a prompt-complete event that finds a buffered usage record prints
\* exactly one summary showing its input, output and their sum and clears the
\* buffer; one that finds no record prints nothing and leaves the buffer empty.
C2_EachRecordDisplayedOnce ==
    [][last'.handler = "prompt:complete" =>
          IF buffered_token_usage # None
          THEN buffered_token_usage' = None /\ ShowsUsage(stdout', buffered_token_usage)
          ELSE buffered_token_usage' = None /\ stdout' = <<>>]_vars

\* The response event data captures nothing by the claim's conditions: the
\* feature is off, or a status other than "ok" is given, or there is no usage
\* mapping or an empty one
NothingToCapture(data) ==
    \/ ~show_token_usage
    \/ ("status" \in DOMAIN data /\ data["status"] # PyStr(S_ok))
    \/ "usage" \notin DOMAIN data
    \/ data["usage"].t # "map"
    \/ data["usage"].m = EmptyMap

\* C3: a response-received event with the feature disabled, a status other
\* than "ok", or no or an empty usage mapping leaves the buffer unchanged and
\* prints nothing; and a prompt-complete event that finds the buffer empty
\* prints nothing.
C3_NoCaptureNoOutput ==
    [][/\ (last'.handler = "llm:response" /\ NothingToCapture(last'.data)) =>
              /\ buffered_token_usage' = buffered_token_usage
              /\ stdout' = <<>> /\ stderr' = <<>>
       /\ (last'.handler = "prompt:complete" /\ buffered_token_usage = None) =>
              /\ buffered_token_usage' = None
              /\ stdout' = <<>> /\ stderr' = <<>>]_vars

\* C3 witness: an error response carrying usage has been handled with the
\* feature on, and the buffer is still empty.
C3_Witness ==
    /\ last.handler = "llm:response"
    /\ show_token_usage
    /\ "status" \in DOMAIN last.data /\ last.data["status"] = PyStr(S_error)
    /\ "usage" \in DOMAIN last.data
    /\ last.data["usage"] = PyMap("input" :> PyInt(1234) @@ "output" :> PyInt(567))
    /\ buffered_token_usage = None
    /\ result = Continue

\* The block index of a block event, None when missing
IndexOf(data) == IF "block_index" \in DOMAIN data THEN data["block_index"] ELSE None

\* The block index of the event is in the tracking map
IndexTracked(data) ==
    IndexOf(data).t = "int" /\ IndexOf(data).n \in DOMAIN thinking_blocks

\* C4: when the block-end handler processes an event whose block_index is in
\* the tracking map, the index is absent from the map afterwards, whatever
\* the block mapping holds (any or no type field).
C4_EndAlwaysUntracks ==
    [][(/\ last'.handler = "content_block:end"
        /\ IndexTracked(last'.data)
        /\ ("block" \in DOMAIN last'.data => last'.data["block"].t = "map"))
       => IndexOf(last'.data).n \notin DOMAIN thinking_blocks']_vars

\* The block-start event may create an entry by the claim's conditions: a
\* thinking or reasoning type, the feature on, an index present
MayTrack(data) ==
    /\ "block_type" \in DOMAIN data
    /\ data["block_type"] \in {PyStr(S_thinking), PyStr(S_reasoning)}
    /\ show_thinking
    /\ IndexOf(data) # None

\* No line of thinking output in either stream
NoThinkingOutput ==
    \A k \in {"thinking_status", "thinking_header", "markdown", "banner", "rule"} :
        LinesOf(stdout, k) = {} /\ LinesOf(stderr, k) = {}

\* C5: a block-start event changes the tracking map only if its type is
\* thinking or reasoning, show-thinking is on and an index is present, and then
\* only at its own index; no other handler adds an entry; with show-thinking
\* off the map stays empty and no thinking output is produced.
C5_StartTracksOnlyThinking ==
    /\ [](~show_thinking => thinking_blocks = EmptyMap /\ NoThinkingOutput)
    /\ [][/\ (last'.handler = "content_block:start" /\ ~MayTrack(last'.data)) =>
                 /\ thinking_blocks' = thinking_blocks
                 /\ stdout' = <<>> /\ stderr' = <<>>
          /\ (last'.handler = "content_block:start" /\ MayTrack(last'.data)) =>
                 \A i \in DOMAIN thinking_blocks' :
                     \/ i \in DOMAIN thinking_blocks /\ thinking_blocks'[i] = thinking_blocks[i]
                     \/ PyInt(i) = IndexOf(last'.data)
          /\ last'.handler # "content_block:start" =>
                 DOMAIN thinking_blocks' \subseteq DOMAIN thinking_blocks]_vars

\* C5 witness: reasoning block 1 has been started with the feature on: it is
\* the only tracked index and its status line has been written.
C5_Witness ==
    /\ last.handler = "content_block:start"
    /\ show_thinking
    /\ last.data = ("block_type" :> PyStr(S_reasoning) @@ "block_index" :> PyInt(1))
    /\ DOMAIN thinking_blocks = {1}
    /\ stderr # <<>>

\* C6: a block-end event whose block_index is not in the tracking map writes
\* nothing to either stream and leaves the tracking map and the usage buffer
\* unchanged.
C6_UntrackedEndIsNoOp ==
    [][(last'.handler = "content_block:end" /\ ~IndexTracked(last'.data)) =>
          /\ thinking_blocks' = thinking_blocks
          /\ buffered_token_usage' = buffered_token_usage
          /\ stdout' = <<>> /\ stderr' = <<>>]_vars

\* C6 witness: the end of thinking block 1, with text to show, has been handled
\* while only block 0 is tracked and a usage record is buffered: nothing is
\* printed (had block 1 been tracked, its text would have been).
C6_Witness ==
    /\ last.handler = "content_block:end"
    /\ last.data = ("block_index" :> PyInt(1)
                    @@ "block" :> PyMap("type" :> PyStr(S_thinking) @@ "thinking" :> PyStr(<<"x">>)))
    /\ DOMAIN thinking_blocks = {0}
    /\ buffered_token_usage # None
    /\ stdout = <<>> /\ stderr = <<>>
    /\ result = Continue

\* C7: the handlers read their fields under a top-level "data" key: a wrapped
\* thinking block start makes its index tracked, and a wrapped usage is
\* buffered by a successful response.
C7_FieldsUnderDataKey ==
    /\ (/\ last.handler = "content_block:start"
        /\ show_thinking
        /\ "data" \in DOMAIN last.data)
       => last.data["data"].m["block_index"].n \in DOMAIN thinking_blocks
    /\ (/\ last.handler = "llm:response"
        /\ show_token_usage
        /\ "data" \in DOMAIN last.data)
       => buffered_token_usage = PyMap(last.data["data"].m["usage"].m)

\* The record a response event buffers for the usage mapping u: each counter,
\* 0 when missing
Captured(u) ==
    PyMap("input" :> (IF "input" \in DOMAIN u THEN u["input"] ELSE PyInt(0))
          @@ "output" :> (IF "output" \in DOMAIN u THEN u["output"] ELSE PyInt(0)))

\* The response event carries a non-empty usage mapping
HasUsage(data) ==
    "usage" \in DOMAIN data /\ data["usage"].t = "map" /\ data["usage"].m # EmptyMap

\* C8 as stated: a response-received event with no status field does not
\* populate the usage buffer.
C8_NoStatusNoCapture ==
    [][(last'.handler = "llm:response" /\ "status" \notin DOMAIN last'.data) =>
          buffered_token_usage' = buffered_token_usage]_vars

\* C8 as amended: a response-received event with no status field counts as
\* successful: with the feature on and a non-empty usage mapping it buffers the
\* usage; the buffer is changed by a response only when the status is missing
\* or equals "ok".
C8_MissingStatusIsOk ==
    [][last'.handler = "llm:response" =>
          /\ (/\ "status" \notin DOMAIN last'.data
              /\ show_token_usage
              /\ HasUsage(last'.data))
             => buffered_token_usage' = Captured(last'.data["usage"].m)
          /\ buffered_token_usage' # buffered_token_usage =>
                \/ "status" \notin DOMAIN last'.data
                \/ last'.data["status"] = PyStr(S_ok)]_vars

\* C8 witness: a response with usage and no status field has been handled and
\* the buffer holds its counters.
C8_Witness ==
    /\ last.handler = "llm:response"
    /\ last.data = ("usage" :> PyMap("input" :> PyInt(1234) @@ "output" :> PyInt(567)))
    /\ buffered_token_usage = PyMap("input" :> PyInt(1234) @@ "output" :> PyInt(567))
    /\ result = Continue

IsAgentOf(r, cs) ==
    IF \E i \in 1..Len(cs) : cs[i] = "_"
    THEN /\ r.t = "str"
         /\ \E p \in 0..(Len(cs) - 1) :
               /\ \A j \in 1..p : cs[j] # "_"
               /\ cs[p + 1] = "_"
               /\ Len(r.s) = Len(cs) - p - 1
               /\ \A k \in 1..Len(r.s) : r.s[k] = cs[p + 1 + k]
    ELSE r = None

\* The session identifier of the event names an agent with an empty name
EmptyAgent(data) ==
    /\ "session_id" \in DOMAIN data
    /\ data["session_id"].t = "str"
    /\ IsAgentOf(PyStr(<<>>), data["session_id"].s)

\* A line in the parent's format: no agent, no sub-agent indent
ParentFormat(line) ==
    /\ "agent" \in DOMAIN line => line.agent = None
    /\ line.indent \in {0, 3}

\* C10: the agent of a session identifier is what follows its first
\* underscore, nothing for a missing or empty identifier or one with no
\* underscore; an empty agent name is formatted like no agent by every handler.
C10_AgentResolution ==
    /\ last.handler = "_parse_agent_from_session_id" =>
          LET sid == last.data["session_id"]
          IN  /\ result.t = "return"
              /\ IF sid = None THEN result.value = None
                 ELSE IsAgentOf(result.value, sid.s)
    /\ (last.handler \in HandlerNames /\ EmptyAgent(last.data)) =>
          /\ \A i \in 1..Len(stdout) : ParentFormat(stdout[i])
          /\ \A i \in 1..Len(stderr) : ParentFormat(stderr[i])
    /\ \A i \in 1..Len(stdout) :
          "agent" \in DOMAIN stdout[i] =>
              \/ stdout[i].agent = None /\ stdout[i].indent = 0
              \/ Truthy(stdout[i].agent) /\ stdout[i].indent = 4

\* C10 witness: a thinking block has been started by the session "_", whose
\* agent name is empty: the entry holds the empty name and the status line has
\* the parent's format.
C10_Witness ==
    /\ last.handler = "content_block:start"
    /\ "session_id" \in DOMAIN last.data /\ last.data["session_id"] = PyStr(<<"_">>)
    /\ \E i \in DOMAIN thinking_blocks : thinking_blocks[i].agent = PyStr(<<>>)
    /\ Len(stderr) = 1 /\ stderr[1].agent = None /\ stderr[1].indent = 0

\* Number of lines of a text: one more than its newlines
NumLines(text) == Cardinality({i \in 1..Len(text) : text[i] = NL}) + 1

\* out is the first m lines of text followed by one line "... (k more lines)"
\* with m + k the number of lines of text
IsLinePreview(out, text, m) ==
    LET ol == Split(out, NL)
        tl == Split(text, NL)
    IN  /\ Len(ol) = m + 1
        /\ \A i \in 1..m : i <= Len(tl) /\ ol[i] = tl[i]
        /\ \E k \in 0..Len(tl) :
              /\ ol[m + 1] = S_dots \o IntToStr(k) \o S_more_lines
              /\ m + k = Len(tl)

\* C11: _truncate_lines, for every text and every integer max_lines: the empty
\* text gives "(empty)"; a single line of more than 200 characters gives its
\* first 200 characters and the number of characters left out; otherwise a
\* text of at most max_lines lines is returned unchanged and a longer one
\* gives exactly its first max_lines lines and one line "... (k more lines)",
\* where kept lines + k = lines of the text.
C11_TruncationContract ==
    last.handler = "_truncate_lines" =>
        LET text == last.data["text"].s
            m == last.data["max_lines"].n
        IN  /\ result.t = "return"
            /\ LET out == result.value.s
               IN  IF text = <<>> THEN out = S_empty
                   ELSE IF NumLines(text) = 1 /\ Len(text) > 200
                   THEN /\ Len(out) > 200
                        /\ SubSeq(out, 1, 200) = SubSeq(text, 1, 200)
                        /\ SubSeq(out, 201, Len(out))
                              = S_dots \o IntToStr(Len(text) - 200) \o S_more_chars
                   ELSE IF NumLines(text) <= m THEN out = text
                   ELSE IsLinePreview(out, text, m)

\* Field orders of the traversal: at a nested mapping, and at the block
NestedOrder == <<"text", "thinking", "summary", "content">>
BlockOrder == <<"thinking", "text", "summary", "content">>

\* The non-empty strings of a value in depth-first order: the fields of a
\* mapping in NestedOrder, the elements of a list in order.  FieldFragments
\* visits the fields of the mapping m in the given order.
RECURSIVE Fragments(_), FieldFragments(_, _)
Fragments(v) ==
    IF v.t = "str" THEN (IF v.s = <<>> THEN <<>> ELSE <<v.s>>)
    ELSE IF v.t = "map" THEN FieldFragments(v.m, NestedOrder)
    ELSE IF v.t = "list"
         THEN (IF v.l = <<>> THEN <<>> ELSE Fragments(Head(v.l)) \o Fragments(PyList(Tail(v.l))))
    ELSE <<>>

FieldFragments(m, order) ==
    IF order = <<>> THEN <<>>
    ELSE (IF Head(order) \in DOMAIN m THEN Fragments(m[Head(order)]) ELSE <<>>)
         \o FieldFragments(m, Tail(order))

\* The block of the example: {summary: [{text: a}, {content: b}]}
ExampleBlock ==
    "summary" :> PyList(<<PyMap("text" :> Txt(<<"a">>)), PyMap("content" :> Txt(<<"b">>))>>)

\* C12 as stated: flattening returns the non-empty fragments joined by newlines
\* in depth-first order, the fields of every mapping, the block included, in
\* the order text, thinking, summary, content.
C12_TextFirstEverywhere ==
    last.handler = "_flatten_reasoning_block" =>
        /\ result.t = "return"
        /\ result.value = PyStr(Join(FieldFragments(last.data["block"].m, NestedOrder), NL))

\* C12 amended: flattening returns the non-empty fragments joined by newlines
\* in depth-first order; the fields of the block itself are visited in the
\* order thinking, text, summary, content, those of every nested mapping in the
\* order text, thinking, summary, content, list elements in order; the example
\* block yields a then b.
C12_BlockThinkingFirst ==
    last.handler = "_flatten_reasoning_block" =>
        /\ result.t = "return"
        /\ result.value = PyStr(Join(FieldFragments(last.data["block"].m, BlockOrder), NL))
        /\ last.data["block"].m = ExampleBlock => result.value = PyStr(<<"a", NL, "b">>)

\* C12 witness: a block with both a text and a thinking field has been
\* flattened, and the thinking fragment comes first.
C12_Witness ==
    /\ last.handler = "_flatten_reasoning_block"
    /\ last.data["block"].m = ("text" :> Txt(<<"a">>) @@ "thinking" :> Txt(<<"b">>))
    /\ result = Returned(PyStr(<<"b", NL, "a">>))

\* The registrations made for event e
RegisteredFor(e) == {i \in 1..Len(registered) : registered[i].event = e}

\* C13: mount, for any configuration, the empty one included, registers
\* exactly six handlers, one for each of the six events, all bound to one
\* formatter instance, whose options are those of the `ui` section and default
\* to show_thinking = TRUE, show_tool_lines = 5, show_token_usage = TRUE.
C13_MountRegistersSix ==
    last.handler = "mount" =>
        LET ui == IF "ui" \in DOMAIN last.data THEN last.data["ui"] ELSE PyMap(EmptyMap)
            opt(k, d) == IF ui.t = "map" /\ k \in DOMAIN ui.m THEN ui.m[k] ELSE d
        IN  /\ result.t = "return"
            /\ Len(registered) = 6
            /\ \A e \in HandlerNames : Cardinality(RegisteredFor(e)) = 1
            /\ \A i, j \in 1..Len(registered) : registered[i].hooks = registered[j].hooks
            /\ PyBool(show_thinking) = opt("show_thinking_stream", PyBool(TRUE))
            /\ PyInt(show_tool_lines) = opt("show_tool_lines", PyInt(5))
            /\ PyBool(show_token_usage) = opt("show_token_usage", PyBool(TRUE))

\* The response event data is a successful capture: the feature is on, the
\* status is "ok" or not given, and the usage is a non-empty mapping
IsCapture(data) ==
    /\ show_token_usage
    /\ ("status" \in DOMAIN data => data["status"] = PyStr(S_ok))
    /\ "usage" \in DOMAIN data
    /\ data["usage"].t = "map"
    /\ data["usage"].m # EmptyMap

\* The counter k of the usage mapping u, 0 when missing
CounterOf(u, k) == IF k \in DOMAIN u THEN u[k] ELSE PyInt(0)

\* C14: the usage buffer is a single slot.  Whatever it held, after a
\* successful capture it holds exactly the input and output counters of that
\* capture, each 0 when missing; the next prompt-complete event prints one
\* summary, for the buffered counters only, and empties the slot.
C14_SingleSlot ==
    [][/\ (last'.handler = "llm:response" /\ IsCapture(last'.data)) =>
              LET u == last'.data["usage"].m
              IN  buffered_token_usage'
                      = PyMap("input" :> CounterOf(u, "input") @@ "output" :> CounterOf(u, "output"))
       /\ (last'.handler = "prompt:complete" /\ buffered_token_usage # None) =>
              /\ ShowsUsage(stdout', buffered_token_usage)
              /\ Cardinality(LinesOf(stdout', "usage_header")) = 1
              /\ buffered_token_usage' = None]_vars

\* C15: handle_llm_response never writes to stdout or stderr; a usage summary
\* is written only by handle_prompt_complete, and it shows the record that an
\* earlier response event put in the buffer: the buffer is filled only by
\* response events, with the counters of that event.
C15_DisplayAfterCapture ==
    /\ [](last.handler = "llm:response" => (stdout = <<>> /\ stderr = <<>>))
    /\ []((LinesOf(stdout, "usage_summary") # {} \/ LinesOf(stdout, "usage_header") # {}
           \/ LinesOf(stderr, "usage_summary") # {})
              => last.handler = "prompt:complete")
    /\ [][/\ LinesOf(stdout', "usage_summary") # {} =>
                  /\ buffered_token_usage # None
                  /\ ShowsUsage(stdout', buffered_token_usage)
          /\ (buffered_token_usage' # buffered_token_usage /\ buffered_token_usage' # None) =>
                  /\ last'.handler = "llm:response"
                  /\ "usage" \in DOMAIN last'.data
                  /\ \A k \in {"input", "output"} :
                        buffered_token_usage'.m[k] = CounterOf(last'.data["usage"].m, k)]_vars

\* C15 witness: a prompt-complete event has printed the summary of the usage
\* captured before and emptied the buffer.
C15_Witness ==
    /\ last.handler = "prompt:complete"
    /\ LinesOf(stdout, "usage_summary") # {}
    /\ stdout[3].input = <<"1", ",", "2", "3", "4">>
    /\ buffered_token_usage = None

\* r is the agent of the session the event data belongs to
AgentOfEvent(r, data) ==
    IF "session_id" \in DOMAIN data /\ data["session_id"].t = "str"
    THEN IsAgentOf(r, data["session_id"].s)
    ELSE r = None

\* The agent a rendered thinking block is attributed to
HeaderAgents(out) == {out[i].agent : i \in LinesOf(out, "thinking_header")}

\* C16: the tracking map and the usage buffer are shared by all sessions.
\* A block-start that tracks an index sets the entry to the agent of its own
\* session even when another session had the index tracked; a rendered
\* block-end is attributed to the agent stored in the entry, whatever session
\* the end event belongs to, and untracks the index, so that the next
\* block-end for the index renders nothing; a prompt-complete event that
\* returns flushes whatever record is buffered, whichever session sends it.
C16_SharedAcrossSessions ==
    [][/\ (last'.handler = "content_block:start" /\ MayTrack(last'.data)
            /\ result' = Continue) =>
              LET i == IndexOf(last'.data).n
              IN  /\ i \in DOMAIN thinking_blocks'
                  /\ AgentOfEvent(thinking_blocks'[i].agent, last'.data)
       /\ (last'.handler = "content_block:end" /\ stdout' # <<>>) =>
              LET i == IndexOf(last'.data).n
              IN  /\ i \in DOMAIN thinking_blocks
                  /\ HeaderAgents(stdout')
                        = {IF Truthy(thinking_blocks[i].agent)
                           THEN thinking_blocks[i].agent ELSE None}
                  /\ i \notin DOMAIN thinking_blocks'
       /\ (last'.handler = "content_block:end" /\ ~IndexTracked(last'.data)) =>
              stdout' = <<>>
       /\ (last'.handler = "prompt:complete" /\ buffered_token_usage # None
            /\ result' = Continue) =>
              /\ ShowsUsage(stdout', buffered_token_usage)
              /\ buffered_token_usage' = None]_vars

\* C16 witness: both sessions have sent their turn.  The parent started block
\* 0, the sub-session started block 0 after it, the parent's block-end was
\* rendered under the sub-session's agent "a" and the sub-session's block-end
\* rendered nothing; the sub-session's response was captured last and the
\* parent's prompt-complete, arriving first, printed the sub-session's
\* counters (input 0, output 567), the sub-session's printed nothing.
C16_Witness ==
    /\ \A s \in SessionNames : sessions[s].pc = "done"
    /\ HeaderAgents(sessions["parent"].printed[2]) = {PyStr(<<"a">>)}
    /\ sessions["sub"].printed[2] = <<>>
    /\ LET out == sessions["parent"].printed[4]
       IN  /\ LinesOf(out, "usage_summary") # {}
           /\ \A i \in LinesOf(out, "usage_summary") :
                 out[i].input = <<"0">> /\ out[i].output = <<"5", "6", "7">>
    /\ sessions["sub"].printed[4] = <<>>

====
